---- MODULE Spec2Model ----
(***************************************************************************)
(* build-your-own-curl: one invocation of the command in cmd/root.go.      *)
(*                                                                         *)
(* Strings are sequences of one-character strings, bytes likewise.  The    *)
(* calls into net/url, net and fmt are modelled by what the Go 1.22        *)
(* standard library does at the call site.                                 *)
(***************************************************************************)
EXTENDS Integers, Sequences, FiniteSets

(***************************************************************************)
(* Byte strings                                                            *)
(***************************************************************************)
Lower == <<"a","b","c","d","e","f","g","h","i","j","k","l","m",
           "n","o","p","q","r","s","t","u","v","w","x","y","z">>

Upper == <<"A","B","C","D","E","F","G","H","I","J","K","L","M",
           "N","O","P","Q","R","S","T","U","V","W","X","Y","Z">>

Digit == <<"0","1","2","3","4","5","6","7","8","9">>

\* The characters a TLA+ string literal cannot spell.
DQuote == "<dquote>"

BSlash == "<bslash>"

BTick == "<btick>"

\* The printable ASCII characters, in code order from 32 (space) to 126 (~).
Ascii ==
    <<" ","!",DQuote,"#","$","%","&","'","(",")","*","+",",","-",".","/">>
    \o Digit \o <<":",";","<","=",">","?","@">>
    \o Upper \o <<"[",BSlash,"]","^","_",BTick>>
    \o Lower \o <<"{","|","}","~">>

Range(s) == { s[i] : i \in 1..Len(s) }

Min(a, b) == IF a <= b THEN a ELSE b

\* strings.IndexByte: position of the first c in s, 0 when there is none.
Index(s, c) ==
    IF \E i \in 1..Len(s) : s[i] = c
    THEN CHOOSE i \in 1..Len(s) : s[i] = c /\ \A j \in 1..(i-1) : s[j] # c
    ELSE 0

\* strings.LastIndexByte: position of the last c in s, 0 when there is none.
LastIndex(s, c) ==
    IF \E i \in 1..Len(s) : s[i] = c
    THEN CHOOSE i \in 1..Len(s) : s[i] = c /\ \A j \in (i+1)..Len(s) : s[j] # c
    ELSE 0

Count(s, c) == Cardinality({ i \in 1..Len(s) : s[i] = c })

HasPrefix(s, p) == Len(s) >= Len(p) /\ SubSeq(s, 1, Len(p)) = p

\* s[from:] in one-based positions.
From(s, from) == SubSeq(s, from, Len(s))

\* strings.Cut(s, c): the text before and after the first c.
Cut(s, c) ==
    LET i == Index(s, c)
    IN  IF i = 0 THEN [before |-> s, after |-> <<>>, found |-> FALSE]
        ELSE [before |-> SubSeq(s, 1, i-1), after |-> From(s, i+1), found |-> TRUE]

PosIn(tab, c) == CHOOSE i \in 1..Len(tab) : tab[i] = c

\* strings.ToLower on ASCII text.
ToLower(s) ==
    [i \in 1..Len(s) |-> IF s[i] \in Range(Upper) THEN Lower[PosIn(Upper, s[i])] ELSE s[i]]

(***************************************************************************)
(* net/url                                                                 *)
(***************************************************************************)
ishex(c) == c \in Range(Digit) \cup {"a","b","c","d","e","f","A","B","C","D","E","F"}

unhex(c) ==
    IF c \in Range(Digit) THEN PosIn(Digit, c) - 1
    ELSE IF c \in Range(Lower) THEN PosIn(Lower, c) + 9
    ELSE PosIn(Upper, c) + 9

\* The character of a decoded byte; bytes outside printable ASCII keep only
\* their class.
ByteChar(b) ==
    IF b = 10 THEN "\n"
    ELSE IF b = 13 THEN "\r"
    ELSE IF b = 9 THEN "\t"
    ELSE IF b < 32 \/ b = 127 THEN "<ctl>"
    ELSE IF b > 127 THEN "<high>"
    ELSE Ascii[b - 31]

\* IsCTL with no byte counted as a control character.
IsCTLNone(c) == FALSE

IsCTL(c) == c \in {"\n", "\r", "\t", "<ctl>"}

stringContainsCTLByte(s) == \E i \in 1..Len(s) : IsCTL(s[i])

IsAlnum(c) == c \in Range(Lower) \cup Range(Upper) \cup Range(Digit)

\* shouldEscape(c, encodeHost): which bytes may not stand in a host.
shouldEscapeHost(c) ==
    ~ ( \/ IsAlnum(c)
        \/ c \in {"!","$","&","'","(",")","*","+",",",";","=",":","[","]","<",">",DQuote}
        \/ c \in {"-","_",".","~"} )

\* The first pass of unescape: every % is followed by two hex digits, and in
\* a host only bytes >= 0x80 and %25 may be escaped and no other byte may
\* need escaping.
RECURSIVE escapesValid(_, _, _)
escapesValid(s, i, hostMode) ==
    IF i > Len(s) THEN TRUE
    ELSE IF s[i] = "%"
    THEN /\ i + 2 <= Len(s)
         /\ ishex(s[i+1])
         /\ ishex(s[i+2])
         /\ (hostMode /\ unhex(s[i+1]) < 8) => SubSeq(s, i, i+2) = <<"%","2","5">>
         /\ escapesValid(s, i + 3, hostMode)
    ELSE /\ (hostMode /\ s[i] # "<high>") => ~ shouldEscapeHost(s[i])
         /\ escapesValid(s, i + 1, hostMode)

\* The second pass of unescape: replace each %XX by the byte it names.
RECURSIVE decode(_, _)
decode(s, i) ==
    IF i > Len(s) THEN <<>>
    ELSE IF s[i] = "%"
    THEN <<ByteChar(unhex(s[i+1]) * 16 + unhex(s[i+2]))>> \o decode(s, i + 3)
    ELSE <<s[i]>> \o decode(s, i + 1)

\* unescape(s, mode) for the modes Parse uses (+ is kept: not a query component).
unescape(s, hostMode) ==
    IF escapesValid(s, 1, hostMode)
    THEN [err |-> FALSE, val |-> decode(s, 1)]
    ELSE [err |-> TRUE, val |-> <<>>]

\* getScheme: (scheme, rest) or the error "missing protocol scheme".
RECURSIVE getScheme(_, _)
getScheme(rawURL, i) ==
    IF i > Len(rawURL) THEN [err |-> FALSE, scheme |-> <<>>, rest |-> rawURL]
    ELSE LET c == rawURL[i]
         IN  IF c \in Range(Lower) \cup Range(Upper)
             THEN getScheme(rawURL, i + 1)
             ELSE IF c \in Range(Digit) \cup {"+", "-", "."}
             THEN IF i = 1
                  THEN [err |-> FALSE, scheme |-> <<>>, rest |-> rawURL]
                  ELSE getScheme(rawURL, i + 1)
             ELSE IF c = ":"
             THEN IF i = 1
                  THEN [err |-> TRUE, scheme |-> <<>>, rest |-> <<>>]
                  ELSE [err |-> FALSE, scheme |-> SubSeq(rawURL, 1, i-1),
                        rest |-> From(rawURL, i+1)]
             ELSE [err |-> FALSE, scheme |-> <<>>, rest |-> rawURL]

\* validOptionalPort: empty, or ":" followed by decimal digits only.
validOptionalPort(port) ==
    \/ port = <<>>
    \/ /\ port[1] = ":"
       /\ \A i \in 2..Len(port) : port[i] \in Range(Digit)

\* parseHost: the host[:port] text of an authority, checked and unescaped
\* (hosts with an IPv6 zone, "%25" inside brackets, are not among the inputs).
parseHost(host) ==
    LET portOK ==
            IF HasPrefix(host, <<"[">>)
            THEN LET i == LastIndex(host, "]")
                 IN  i # 0 /\ validOptionalPort(From(host, i+1))
            ELSE LET i == LastIndex(host, ":")
                 IN  i # 0 => validOptionalPort(From(host, i))
    IN  IF portOK THEN unescape(host, TRUE) ELSE [err |-> TRUE, val |-> <<>>]

\* validUserinfo: the bytes RFC 3986 allows before the "@".
validUserinfo(s) ==
    \A i \in 1..Len(s) :
        \/ IsAlnum(s[i])
        \/ s[i] \in {"-",".","_",":","~","!","$","&","'","(",")","*","+",",",";","=","%","@"}

\* parseAuthority: [userinfo@]host[:port]; only the host part reaches Run.
parseAuthority(authority) ==
    LET i == LastIndex(authority, "@")
        h == parseHost(From(authority, i+1))
    IN  IF h.err THEN h
        ELSE IF i # 0 /\ ~ validUserinfo(SubSeq(authority, 1, i-1))
        THEN [err |-> TRUE, val |-> <<>>]
        ELSE h

NoURL == [err |-> TRUE, Scheme |-> <<>>, Host |-> <<>>, Path |-> <<>>]

\* parse(rawURL, viaRequest = false): the URL without its fragment.
parse(rawURL) ==
    IF stringContainsCTLByte(rawURL) THEN NoURL
    ELSE IF rawURL = <<"*">>
    THEN [err |-> FALSE, Scheme |-> <<>>, Host |-> <<>>, Path |-> <<"*">>]
    ELSE
    LET s == getScheme(rawURL, 1) IN
    IF s.err THEN NoURL
    ELSE
    LET Scheme == ToLower(s.scheme)
        rest   == IF s.rest # <<>> /\ s.rest[Len(s.rest)] = "?" /\ Count(s.rest, "?") = 1
                  THEN SubSeq(s.rest, 1, Len(s.rest) - 1)
                  ELSE Cut(s.rest, "?").before
    IN
    IF ~ HasPrefix(rest, <<"/">>) /\ Scheme # <<>>
    THEN \* a rootless path is opaque: no host, no path
         [err |-> FALSE, Scheme |-> Scheme, Host |-> <<>>, Path |-> <<>>]
    ELSE IF ~ HasPrefix(rest, <<"/">>) /\ Index(Cut(rest, "/").before, ":") # 0
    THEN \* first path segment in URL cannot contain colon
         NoURL
    ELSE
    LET hasAuthority == /\ HasPrefix(rest, <<"/","/">>)
                        /\ (Scheme # <<>> \/ ~ HasPrefix(rest, <<"/","/","/">>))
        afterSlashes == From(rest, 3)
        slash        == Index(afterSlashes, "/")
        authority    == IF slash = 0 THEN afterSlashes
                        ELSE SubSeq(afterSlashes, 1, slash - 1)
        pathText     == IF ~ hasAuthority THEN rest
                        ELSE IF slash = 0 THEN <<>>
                        ELSE From(afterSlashes, slash)
        h == IF hasAuthority THEN parseAuthority(authority)
             ELSE [err |-> FALSE, val |-> <<>>]
        p == unescape(pathText, FALSE)
    IN  IF h.err \/ p.err THEN NoURL
        ELSE [err |-> FALSE, Scheme |-> Scheme, Host |-> h.val, Path |-> p.val]

\* url.Parse: cut off "#fragment", parse the rest, check the fragment's escapes.
Parse(rawURL) ==
    LET c == Cut(rawURL, "#")
        u == parse(c.before)
    IN  IF u.err THEN NoURL
        ELSE IF ~ unescape(c.after, FALSE).err THEN u
        ELSE NoURL

\* splitHostPort: the host and the port of URL.Host.
splitHostPort(hostPort) ==
    LET colon == LastIndex(hostPort, ":")
        split == colon # 0 /\ validOptionalPort(From(hostPort, colon))
        host  == IF split THEN SubSeq(hostPort, 1, colon - 1) ELSE hostPort
        port  == IF split THEN From(hostPort, colon + 1) ELSE <<>>
    IN  [host |-> IF HasPrefix(host, <<"[">>) /\ host[Len(host)] = "]"
                  THEN SubSeq(host, 2, Len(host) - 1)
                  ELSE host,
         port |-> port]

Hostname(u) == splitHostPort(u.Host).host

Port(u) == splitHostPort(u.Host).port

(***************************************************************************)
(* Inputs of one invocation                                                *)
(***************************************************************************)
Schemes == { <<"h","t","t","p">>, <<"h","t","t","p","s">> }

Hosts == { <<"h">>, <<"e",".","c">> }

\* The port written in the authority; <<>> when the URL writes none.
Ports == { <<>>, <<"8","0">>, <<"8","0","8","0">>, <<"4","4","3">> }

Paths == { <<>>, <<"/">>, <<"/","g","e","t">>, <<"/","a","%","2","0","b">> }

Queries == { <<>>, <<"?","u","=","x",":","9">> }

URLParts == [scheme : Schemes, host : Hosts, port : Ports, path : Paths, query : Queries]

\* The text of an absolute URL scheme://host[:port]path[?query].
Render(c) ==
    c.scheme \o <<":","/","/">> \o c.host
    \o (IF c.port = <<>> THEN <<>> ELSE <<":">> \o c.port)
    \o c.path \o c.query

NotAURL == <<"n","o","t"," ","a"," ","u","r","l">>

\* Arguments that are not of the rendered form.
OtherArgs ==
    { NotAURL,
      <<>>,
      <<"e",".","c",":","8","0","/","x">>,
      <<"/","g","e","t">>,
      <<"/","/","h",":","9","/","p">>,
      <<"h","t","t","p",":","/","/","h",":","/","x">>,
      <<"h","t","t","p",":","/","/","[",":",":","1","]",":","8","0","/">>,
      <<"h","t","t","p",":","/","/","u","@","h",":","8","1","/","#","f">>,
      <<"h","t","t","p",":","/","/","h",":","9","9","9","9","9","/">>,
      <<":","/","/","h">>,
      <<"1",":","/","/","h">>,
      <<"h","t","t","p",":","/","/","h",":","a","b","/">>,
      <<"h","t","t","p",":","/","/","a"," ","b","/">>,
      <<"h","t","t","p",":","/","/","h","/","%","z","z">>,
      <<"h","\n">> }

URLArgs == { Render(c) : c \in URLParts } \cup OtherArgs

\* The largest number of positional arguments tried.
MaxArgs == 2

\* The positional arguments left after flag parsing.
Argvs ==
    { <<>> } \cup { <<a>> : a \in URLArgs }
    \cup { [i \in 1..n |-> Render([scheme |-> <<"h","t","t","p">>, host |-> <<"h">>,
                                   port |-> <<>>, path |-> <<"/">>, query |-> <<>>])]
           : n \in 2..MaxArgs }

\* make([]byte, 1024)
BufCap == 1024

\* How many bytes more than the buffer holds the long response has.
Excess == 2

HiResponse ==
    <<"H","T","T","P","/","1",".","0"," ","2","0","0"," ","O","K",
      "\r","\n","\r","\n","h","i">>

Filler(n) == [i \in 1..n |-> IF i % 2 = 1 THEN "x" ELSE "y"]

\* What the server writes before it closes: nothing, a short response, one
\* that fills the buffer exactly, one that exceeds it.
Responses == { <<>>, HiResponse, Filler(BufCap), Filler(BufCap + Excess) }

\* How many of the server's len bytes have arrived when Read returns.
ArrivalPoints(len) == { 1, len \div 2, BufCap - 1, BufCap, len } \cap (1..len)

(***************************************************************************)
(* State                                                                   *)
(***************************************************************************)
VARIABLES
    args,       \* the positional arguments
    pc,         \* the statement the process is at
    host,       \* Run's locals
    port,
    path,
    conn,       \* the TCP connection: "none", "open", "closed"
    deferred,   \* conn.Close() is on the defer stack
    sent,       \* the buffers handed to conn.Write, in order
    served,     \* the bytes the server writes before closing
    resp,       \* buf[:n]
    err,        \* the error that made Run panic, "nil" if none
    stdout,
    stderr,
    exitCode,   \* -1 while the process runs
    events      \* the calls made so far, in order

vars == <<args, pc, host, port, path, conn, deferred, sent, served, resp, err,
          stdout, stderr, exitCode, events>>

Init ==
    /\ args \in Argvs
    /\ pc = "start"
    /\ host = <<>>
    /\ port = <<>>
    /\ path = <<>>
    /\ conn = "none"
    /\ deferred = FALSE
    /\ sent = <<>>
    /\ served = <<>>
    /\ resp = <<>>
    /\ err = "nil"
    /\ stdout = <<>>
    /\ stderr = <<>>
    /\ exitCode = -1
    /\ events = <<>>

(***************************************************************************)
(* The program                                                             *)
(***************************************************************************)
\* ExactArgs as cobra.MinimumNArgs(1).
MinimumNArgs(a) == Len(a) >= 1

\* Args: cobra.ExactArgs(1)
ExactArgs(a) == Len(a) = 1

\* Execute: the argument check fails, cobra reports it on standard error and
\* Execute exits with status 1; otherwise Run is called.
ValidateArgs ==
    /\ pc = "start"
    /\ IF ExactArgs(args)
       THEN /\ pc' = "parse"
            /\ UNCHANGED <<stderr, exitCode, events>>
       ELSE /\ pc' = "exited"
            /\ stderr' = stderr \o <<"Error: accepts 1 arg(s)", "usage">>
            /\ exitCode' = 1
            /\ events' = Append(events, "exit")
    /\ UNCHANGED <<args, host, port, path, conn, deferred, sent, served, resp, err, stdout>>

\* DefaultPort with the HTTPS port as the default.
DefaultPortTLS(p) == IF p = <<>> THEN <<"4","4","3">> ELSE p

\* if port == "" { port = "80" }
DefaultPort(p) == IF p = <<>> THEN <<"8","0">> ELSE p

\* println("Host:", host) and the two lines after it (println writes to
\* standard error).
Println3(h, p, pa) ==
    <<"Host:", " ">> \o h \o <<"\n">>
    \o <<"Port:", " ">> \o p \o <<"\n">>
    \o <<"Path:", " ">> \o pa \o <<"\n">>

\* Run, up to the three println calls.
Resolve ==
    /\ pc = "parse"
    /\ LET u == Parse(args[1])
       IN  IF u.err
           THEN /\ err' = "url.Error"
                /\ pc' = "unwind"
                /\ UNCHANGED <<host, port, path, stderr, events>>
           ELSE /\ host' = Hostname(u)
                /\ port' = DefaultPort(Port(u))
                /\ path' = u.Path
                /\ stderr' = stderr \o Println3(host', port', path')
                /\ events' = Append(events, "resolve")
                /\ pc' = "dial"
                /\ err' = err
    /\ UNCHANGED <<args, conn, deferred, sent, served, resp, stdout, exitCode>>

RECURSIVE Atoi(_)
Atoi(digits) ==
    IF digits = <<>> THEN 0
    ELSE 10 * Atoi(SubSeq(digits, 1, Len(digits) - 1))
         + (PosIn(Digit, digits[Len(digits)]) - 1)

\* net.Dial accepts the address "host:port": the host has no colon or bracket
\* of its own and the port is a number up to 65535.
DialAddrOK(h, p) ==
    /\ \A i \in 1..Len(h) : h[i] \notin {":", "[", "]"}
    /\ Len(p) <= 5
    /\ Atoi(p) <= 65535

\* conn, err := net.Dial(...); panic on error; defer conn.Close()
Dial ==
    /\ pc = "dial"
    /\ events' = Append(events, "connect")
    /\ \E ok \in BOOLEAN, r \in Responses :
        IF ok /\ DialAddrOK(host, port)
        THEN /\ conn' = "open"
             /\ deferred' = TRUE
             /\ served' = r
             /\ pc' = "write"
             /\ err' = err
        ELSE /\ err' = "dial error"
             /\ pc' = "unwind"
             /\ UNCHANGED <<conn, deferred, served>>
    /\ UNCHANGED <<args, host, port, path, sent, resp, stdout, stderr, exitCode>>

\* Request with the protocol version of a later HTTP and a header more.
RequestKeepAlive(pa, h) ==
    <<"G","E","T"," ">> \o pa \o <<" ","H","T","T","P","/","1",".","1","\r","\n">>
    \o <<"H","o","s","t",":"," ">> \o h \o <<"\r","\n">>
    \o <<"C","o","n","n","e","c","t","i","o","n",":"," ","c","l","o","s","e","\r","\n","\r","\n">>

\* The text of "GET %s HTTP/1.0\r\nHost: %s\r\n\r\n" with pa and h filled in.
Request(pa, h) ==
    <<"G","E","T"," ">> \o pa \o <<" ","H","T","T","P","/","1",".","0","\r","\n">>
    \o <<"H","o","s","t",":"," ">> \o h \o <<"\r","\n","\r","\n">>

\* fmt.Fprintf(conn, ...): one Write of the formatted text, result ignored.
Write ==
    /\ pc = "write"
    /\ sent' = Append(sent, Request(path, host))
    /\ events' = Append(events, "write")
    /\ pc' = "read"
    /\ UNCHANGED <<args, host, port, path, conn, deferred, served, resp, err,
                   stdout, stderr, exitCode>>

\* ReadInto without the limit of the buffer.
ReadIntoUnbounded(cap, stream, arrived) == SubSeq(stream, 1, arrived)

\* conn.Read(buf) with cap = len(buf): the first bytes of the stream, as many
\* as have arrived and fit.
ReadInto(cap, stream, arrived) == SubSeq(stream, 1, Min(cap, arrived))

\* Read with a clean end-of-stream taken as an empty read, not an error.
ReadEOFAsEmpty ==
    /\ pc = "read"
    /\ events' = Append(events, "read")
    /\ \/ /\ err' = "read error"
          /\ pc' = "unwind"
          /\ resp' = resp
       \/ /\ served = <<>>
          /\ resp' = <<>>
          /\ pc' = "print"
          /\ err' = err
       \/ \E arrived \in ArrivalPoints(Len(served)) :
            /\ resp' = ReadInto(BufCap, served, arrived)
            /\ pc' = "print"
            /\ err' = err
    /\ UNCHANGED <<args, host, port, path, conn, deferred, sent, served,
                   stdout, stderr, exitCode>>

\* n, err := conn.Read(buf); panic on error.  Read returns what has arrived,
\* at most len(buf) bytes; io.EOF when the server closed without data; any
\* other error when the connection broke.
Read ==
    /\ pc = "read"
    /\ events' = Append(events, "read")
    /\ \/ /\ err' = "read error"
          /\ pc' = "unwind"
          /\ resp' = resp
       \/ /\ served = <<>>
          /\ err' = "EOF"
          /\ pc' = "unwind"
          /\ resp' = resp
       \/ \E arrived \in ArrivalPoints(Len(served)) :
            /\ resp' = ReadInto(BufCap, served, arrived)
            /\ pc' = "print"
            /\ err' = err
    /\ UNCHANGED <<args, host, port, path, conn, deferred, sent, served,
                   stdout, stderr, exitCode>>

\* Println as fmt.Print: no newline after the response.
PrintNoNewline ==
    /\ pc = "print"
    /\ stdout' = stdout \o resp
    /\ events' = Append(events, "print")
    /\ pc' = "unwind"
    /\ UNCHANGED <<args, host, port, path, conn, deferred, sent, served, resp, err,
                   stderr, exitCode>>

\* Println followed by an explicit conn.Close() next to the deferred one.
PrintlnThenClose ==
    /\ pc = "print"
    /\ stdout' = stdout \o resp \o <<"\n">>
    /\ conn' = "closed"
    /\ events' = events \o <<"print", "close">>
    /\ pc' = "unwind"
    /\ UNCHANGED <<args, host, port, path, deferred, sent, served, resp, err,
                   stderr, exitCode>>

\* fmt.Println(string(buf[:n])), then Run returns.
Println ==
    /\ pc = "print"
    /\ stdout' = stdout \o resp \o <<"\n">>
    /\ events' = Append(events, "print")
    /\ pc' = "unwind"
    /\ UNCHANGED <<args, host, port, path, conn, deferred, sent, served, resp, err,
                   stderr, exitCode>>

\* DeferredClose as a conn.Close() at the end of Run: a panic skips it.
CloseAtEnd ==
    /\ pc = "unwind"
    /\ deferred
    /\ conn' = IF err = "nil" THEN "closed" ELSE conn
    /\ deferred' = FALSE
    /\ events' = IF err = "nil" THEN Append(events, "close") ELSE events
    /\ UNCHANGED <<args, pc, host, port, path, sent, served, resp, err,
                   stdout, stderr, exitCode>>

\* The deferred conn.Close() runs when Run returns or panics.
DeferredClose ==
    /\ pc = "unwind"
    /\ deferred
    /\ conn' = "closed"
    /\ deferred' = FALSE
    /\ events' = Append(events, "close")
    /\ UNCHANGED <<args, pc, host, port, path, sent, served, resp, err,
                   stdout, stderr, exitCode>>

\* ExitStatus of a process that recovers from the panic and returns.
ExitStatusRecovered(e) == 0

\* A panic ends the process with status 2 and a dump on standard error;
\* otherwise Execute returns and the process ends with status 0.
ExitStatus(e) == IF e = "nil" THEN 0 ELSE 2

Exit ==
    /\ pc = "unwind"
    /\ ~ deferred
    /\ exitCode' = ExitStatus(err)
    /\ stderr' = IF err = "nil" THEN stderr ELSE stderr \o <<"panic: ", err>>
    /\ events' = Append(events, "exit")
    /\ pc' = "exited"
    /\ UNCHANGED <<args, host, port, path, conn, deferred, sent, served, resp, err, stdout>>

Next ==
    \/ ValidateArgs
    \/ Resolve
    \/ Dial
    \/ Write
    \/ Read
    \/ Println
    \/ DeferredClose
    \/ Exit

Spec == Init /\ [][Next]_vars

(***************************************************************************)
(* Properties                                                              *)
(***************************************************************************)
Occurs(e) == Count(events, e)

IsPrefix(s, t) == Len(s) <= Len(t) /\ s = SubSeq(t, 1, Len(s))

\* The read has returned without an error.
ReadReturned == Occurs("read") = 1 /\ err = "nil"

\* C1: whatever the resolved target, the empty path included, the bytes
\* written on the connection are exactly one request
\* "GET <path> HTTP/1.0\r\nHost: <host>\r\n\r\n" with the target's path and
\* host: nothing is written before the write step, one buffer after it, never
\* a second one.
RequestFramingExact ==
    /\ Len(sent) = Occurs("write")
    /\ Len(sent) <= 1
    /\ (pc \in {"read", "print"} \/ Occurs("read") > 0) => Len(sent) = 1
    /\ sent # <<>> =>
         sent[1] = <<"G","E","T"," ">> \o path
                   \o <<" ","H","T","T","P","/","1",".","0","\r","\n",
                        "H","o","s","t",":"," ">>
                   \o host \o <<"\r","\n","\r","\n">>

RequestFramingWitness ==
    /\ pc = "exited"
    /\ path = <<>>
    /\ host = <<"e",".","c">>
    /\ Len(sent) = 1

\* The ports the arguments outside the rendered form resolve to.
OtherPorts ==
    { <<<<"/","/","h",":","9","/","p">>, <<"9">>>>,
      <<<<"h","t","t","p",":","/","/","h",":","/","x">>, <<"8","0">>>>,
      <<<<"h","t","t","p",":","/","/","[",":",":","1","]",":","8","0","/">>, <<"8","0">>>>,
      <<<<"h","t","t","p",":","/","/","u","@","h",":","8","1","/","#","f">>, <<"8","1">>>>,
      <<<<"/","g","e","t">>, <<"8","0">>>> }

\* C2: the resolved port is the port written in the URL's authority when there
\* is one and "80" when there is none, for http and https alike and whatever
\* the path and the query.
PortPolicy ==
    /\ \A c \in URLParts :
         (args = <<Render(c)>> /\ pc \notin {"start", "parse"}) =>
            /\ err # "url.Error"
            /\ port = IF c.port = <<>> THEN <<"8","0">> ELSE c.port
    /\ \A o \in OtherPorts :
         (args = <<o[1]>> /\ pc \notin {"start", "parse"}) =>
            /\ err # "url.Error"
            /\ port = o[2]

PortPolicyWitness ==
    /\ args = <<Render([scheme |-> <<"h","t","t","p","s">>, host |-> <<"h">>,
                        port |-> <<>>, path |-> <<"/","g","e","t">>,
                        query |-> <<"?","u","=","x",":","9">>])>>
    /\ pc = "dial"
    /\ port = <<"8","0">>

\* C3 as stated: the argument "not a url" ends in a URL error and no connect
\* is ever attempted.
NoSchemeIsMalformed ==
    args = <<NotAURL>> =>
        /\ Occurs("connect") = 0
        /\ pc \notin {"start", "parse"} => err = "url.Error"

\* The arguments url.Parse rejects: no scheme before the colon, a colon in the
\* first segment of a relative path, a port that is not a number, a space in
\* the host, a bad escape, a control character.
RejectedArgs ==
    { <<":","/","/","h">>,
      <<"1",":","/","/","h">>,
      <<"h","t","t","p",":","/","/","h",":","a","b","/">>,
      <<"h","t","t","p",":","/","/","a"," ","b","/">>,
      <<"h","t","t","p",":","/","/","h","/","%","z","z">>,
      <<"h","\n">> }

\* C3, amended: an argument url.Parse rejects ends in a URL error without any
\* connect, write or read; "not a url" is not rejected: it resolves to the
\* empty host, port "80" and the path "not a url", and the dial is reached.
MalformedNeverDials ==
    /\ err = "url.Error" =>
         /\ Occurs("connect") = 0 /\ Occurs("write") = 0 /\ Occurs("read") = 0
         /\ conn = "none"
    /\ \A a \in RejectedArgs :
         (args = <<a>> /\ pc \notin {"start", "parse"}) => err = "url.Error"
    /\ (args = <<NotAURL>> /\ pc \notin {"start", "parse"}) =>
         /\ err # "url.Error"
         /\ host = <<>>
         /\ port = <<"8","0">>
         /\ path = NotAURL
         /\ pc \in {"unwind", "exited"} => Occurs("connect") = 1

MalformedWitness ==
    /\ args = <<<<"h","\n">>>>
    /\ pc = "exited"
    /\ err = "url.Error"
    /\ Occurs("connect") = 0

\* C4: once the connect has succeeded the connection is closed exactly once
\* by the time the process exits, after a good read and after a failed one;
\* it is never closed twice, and never closed when the connect failed.
ClosedExactlyOnce ==
    /\ Occurs("close") <= 1
    /\ conn = "none" => Occurs("close") = 0
    /\ err = "dial error" => conn = "none"
    /\ (pc = "exited" /\ Occurs("connect") = 1 /\ err # "dial error") =>
         /\ conn = "closed"
         /\ Occurs("close") = 1

ClosedAfterReadErrorWitness ==
    /\ pc = "exited"
    /\ err = "read error"
    /\ conn = "closed"
    /\ Occurs("close") = 1

\* C5 as stated: when the server sends more than the buffer holds, the read
\* that returns without error returns exactly BufCap bytes.
TruncatedToExactlyCap ==
    (Len(served) > BufCap /\ ReadReturned) => Len(resp) = BufCap

\* C5, amended: when the server sends more than the buffer holds, the single
\* read returns a non-empty prefix of what was sent of at most BufCap bytes
\* (as many as had arrived), truncation is no error, and the rest is dropped
\* without another read.
TruncatedToAtMostCap ==
    /\ Occurs("read") <= 1
    /\ (Len(served) > BufCap /\ ReadReturned) =>
         /\ Len(resp) >= 1
         /\ Len(resp) <= BufCap
         /\ IsPrefix(resp, served)
         /\ pc = "exited" => (exitCode = 0 /\ stdout = resp \o <<"\n">>)

TruncatedWitness ==
    /\ Len(served) > BufCap
    /\ pc = "exited"
    /\ err = "nil"
    /\ Len(resp) = BufCap

\* C6 as stated: unless the read fails for another reason than a clean
\* end-of-stream, it is no error, and the response is what was read, possibly
\* nothing.
CleanEOFIsNoError ==
    (Occurs("read") = 1 /\ err # "read error") =>
        /\ err = "nil"
        /\ IsPrefix(resp, served)

\* C6, amended: a read of at least one byte and fewer than BufCap is no error
\* and yields that shorter response; a read of zero bytes at a clean
\* end-of-stream is an error like any other read failure: nothing is printed
\* and the exit status is not 0.
ShortReadValidEOFFatal ==
    /\ ReadReturned =>
         /\ Len(resp) >= 1
         /\ IsPrefix(resp, served)
    /\ (Occurs("read") = 1 /\ served = <<>>) =>
         /\ err \in {"EOF", "read error"}
         /\ stdout = <<>>
         /\ pc = "exited" => exitCode # 0
    /\ err = "EOF" => served = <<>>

ShortReadWitness ==
    /\ pc = "exited"
    /\ err = "EOF"
    /\ served = <<>>
    /\ exitCode = 2

\* The server accepted the connection and the connection did not break.
ServerWellBehaved == Occurs("connect") = 1 /\ err \notin {"dial error", "read error"}

\* C7 as stated: against a server that writes at most BufCap bytes and
\* closes, the response is exactly what the server wrote, standard output is
\* those bytes and one newline, and the exit status is 0.
EndToEndExact ==
    (pc = "exited" /\ ServerWellBehaved /\ Len(served) <= BufCap) =>
        /\ resp = served
        /\ stdout = served \o <<"\n">>
        /\ exitCode = 0

\* C7, amended: against such a server with a non-empty response, the response
\* is the non-empty prefix of the server's bytes that had arrived when the
\* read returned (all of them at best), standard output is that prefix and
\* one newline, and the exit status is 0; when the server wrote nothing the
\* read fails, nothing is printed and the exit status is not 0.
EndToEndPrefix ==
    (pc = "exited" /\ ServerWellBehaved /\ Len(served) <= BufCap) =>
        IF served = <<>>
        THEN /\ err = "EOF"
             /\ stdout = <<>>
             /\ exitCode # 0
        ELSE /\ err = "nil"
             /\ Len(resp) >= 1
             /\ IsPrefix(resp, served)
             /\ stdout = resp \o <<"\n">>
             /\ exitCode = 0

EndToEndWitness ==
    /\ pc = "exited"
    /\ served = HiResponse
    /\ resp = HiResponse
    /\ stdout = HiResponse \o <<"\n">>
    /\ exitCode = 0

Last(s) == s[Len(s)]

\* C8: every failure is fatal and never retried: at most one connect per
\* invocation; once Run has failed nothing follows but the close and the
\* exit, standard output stays empty, and the exit status is not 0.
FailuresAreFatal ==
    /\ [](/\ Occurs("connect") <= 1
          /\ err # "nil" => stdout = <<>>
          /\ (pc = "exited" /\ err # "nil") => exitCode # 0)
    /\ [][err # "nil" =>
            /\ err' = err
            /\ stdout' = stdout
            /\ sent' = sent
            /\ events' # events => /\ Len(events') = Len(events) + 1
                                   /\ Last(events') \in {"close", "exit"}]_vars

FailureWitness ==
    /\ pc = "exited"
    /\ err = "read error"
    /\ exitCode = 2
    /\ stdout = <<>>

CloseBeforePrint ==
    (pc = "exited" /\ exitCode = 0) =>
        events = <<"resolve", "connect", "write", "read", "close", "print", "exit">>

LinearOrder == <<"resolve", "connect", "write", "read", "print", "close", "exit">>

\* C10, amended: a successful invocation is resolve, connect, write, read,
\* print, close, exit, each once and in this order: the response is printed
\* before the deferred close runs.
PrintBeforeClose ==
    /\ (Len(args) = 1 /\ err = "nil") => IsPrefix(events, LinearOrder)
    /\ (pc = "exited" /\ exitCode = 0) => events = LinearOrder

LinearOrderWitness ==
    /\ pc = "exited"
    /\ exitCode = 0
    /\ Occurs("print") = 1
    /\ Occurs("close") = 1

====
